---- MODULE Spec2Model ----
(***************************************************************************)
(* Model of api/chat.js: the token-bucket limiter, the input guard, the    *)
(* prompt assembler, the fallback completion invoker, the flavoring and    *)
(* the request handler that composes them.                                 *)
(*                                                                         *)
(* Texts that the code inspects (origins, upstream error bodies, messages) *)
(* are sequences of parts, so that startsWith / includes / trim / length   *)
(* are computed and not assumed.  Token counts are exact rationals stored  *)
(* as integers in units of 1/TokenScale token, with a flag for the         *)
(* rounding of the floating-point additions that produced them.            *)
(***************************************************************************)
EXTENDS Integers, Sequences, FiniteSets, TLC

VARIABLES
  now,       \* Date.now(), in ms since the process started
  buckets,   \* the module-level Map `buckets`: identity -> {tokens, last}
  groqModel, \* process.env.GROQ_MODEL ("<undefined>" when unset)
  reqs,      \* one record per handler invocation slot
  bursts,    \* history: per identity, the current run of allow calls
  waits,     \* history: per identity, the wait for the next token
  windows    \* history: per identity, the calls allowed in an observed interval

vars == <<now, buckets, groqModel, reqs, bursts, waits, windows>>

Min(a, b) == IF a <= b THEN a ELSE b

\* ------------------------------------------------------------------ bounds
\* The limiter specification lets the clock advance while now < MaxNow.
MaxNow == 12500
\* The handler specification lets the clock advance while now < MaxHandlerNow.
MaxHandlerNow == 7500
\* Sizes of one clock advance, in ms (a third of a token, one token).
TickSizes == {2500, 7500}

\* ------------------------------------------------------------ rate limiter
capacity == 16
refillPerMinute == 8
MsPerMinute == 60000
\* One token is TokenScale stored units; chosen so that the refill of any whole
\* number of ms is a whole number of units.
TokenScale == MsPerMinute \div refillPerMinute

\* The client identities the requests can carry.
IPs == {"10.0.0.1", "10.0.0.2"}

\* Token counts are JavaScript numbers (IEEE-754 doubles).  The model stores the
\* count as the exact rational (tokens, in units) together with `low`: whether
\* the rounding of the additions that produced the stored double may have left
\* it just below that rational (by far less than one unit).  A double that
\* rounding left at or above the rational decides every test of the code as
\* the rational does, because the rationals are whole numbers of units and the
\* tests compare with whole tokens.

\* buckets.get(ip) || { tokens: RATE.capacity, last: now }
BucketOf(bs, ip, t) ==
  IF ip \in DOMAIN bs THEN bs[ip]
  ELSE [tokens |-> capacity * TokenScale, last |-> t, low |-> FALSE]

\* (now - b.last) / 60000 is a binary fraction, hence computed without
\* rounding, when the elapsed ms are a multiple of 60000 / 32.
BinaryStep == MsPerMinute \div 32

\* What the rounding of b.tokens + elapsedMin * RATE.refillPerMinute can leave:
\* nothing is added when no time has elapsed; the sum of two whole multiples
\* of a quarter token is exact, and so a double at or above the rational stays
\* at or above it; any other sum may round to either side.
Roundings(b, t) ==
  IF t = b.last THEN {b.low}
  ELSE IF ~b.low /\ b.tokens % BinaryStep = 0 /\ (t - b.last) % BinaryStep = 0
       THEN {FALSE}
       ELSE {FALSE, TRUE}

\* Mutant: the refill without its cap.
RefilledNoCap(b, t) ==
  b.tokens + ((t - b.last) * refillPerMinute * TokenScale) \div MsPerMinute

\* b.tokens = Math.min(RATE.capacity, b.tokens + elapsedMin * RATE.refillPerMinute)
Refilled(b, t) ==
  Min(capacity * TokenScale,
      b.tokens + ((t - b.last) * refillPerMinute * TokenScale) \div MsPerMinute)

\* Math.min(RATE.capacity, x) is the capacity itself when x exceeds it.
RefilledLow(b, t, low) ==
  low /\ b.tokens + ((t - b.last) * refillPerMinute * TokenScale) \div MsPerMinute
           <= capacity * TokenScale

\* Mutant: > for >=.
HasTokenStrict(tokens, low) == tokens > TokenScale

\* Mutant: any fraction of a token is enough.
HasTokenAny(tokens, low) == tokens > 0

\* if (b.tokens >= 1): the test that decides the call.
HasToken(tokens, low) == tokens > TokenScale \/ (tokens = TokenScale /\ ~low)

\* takeToken(ip) at time t on the table bs, the additions rounding as `low`
\* says: the value returned ...
takeTokenResult(bs, ip, t, low) ==
  LET b == BucketOf(bs, ip, t)
  IN  HasToken(Refilled(b, t), RefilledLow(b, t, low))

\* Mutant: a call made while a request of the same identity is suspended writes
\* the bucket back without its decrement.
takeTokenBucketsRacy(bs, ip, t, low) ==
  LET old == BucketOf(bs, ip, t)
      tokens == Refilled(old, t)
      under == RefilledLow(old, t, low)
      busy == \E r \in DOMAIN reqs : reqs[r].pc = "fetch" /\ reqs[r].ip = ip
      b == [tokens |-> IF HasToken(tokens, under) /\ ~busy
                       THEN tokens - TokenScale ELSE tokens,
            last |-> t, low |-> under]
  IN  [i \in (DOMAIN bs) \cup {ip} |-> IF i = ip THEN b ELSE bs[i]]

\* Mutant: one bucket serves every identity.
takeTokenBucketsShared(bs, ip, t, low) ==
  LET any == IF DOMAIN bs = {} THEN ip ELSE CHOOSE i \in DOMAIN bs : TRUE
      old == BucketOf(bs, any, t)
      tokens == Refilled(old, t)
      under == RefilledLow(old, t, low)
      b == [tokens |-> IF HasToken(tokens, under) THEN tokens - TokenScale ELSE tokens,
            last |-> t, low |-> under]
  IN  [i \in (DOMAIN bs) \cup {ip} |-> b]

\* Mutant: a denied call stores the new timestamp but not the refill.
takeTokenBucketsForgets(bs, ip, t, low) ==
  LET old == BucketOf(bs, ip, t)
      tokens == Refilled(old, t)
      under == RefilledLow(old, t, low)
      b == [tokens |-> IF HasToken(tokens, under) THEN tokens - TokenScale ELSE old.tokens,
            last |-> t, low |-> IF HasToken(tokens, under) THEN under ELSE old.low]
  IN  [i \in (DOMAIN bs) \cup {ip} |-> IF i = ip THEN b ELSE bs[i]]

\* ... and the table it leaves (buckets.set(ip, b) on both branches).  The
\* subtraction of 1 from a double in [1, 16] is exact.
takeTokenBuckets(bs, ip, t, low) ==
  LET old == BucketOf(bs, ip, t)
      tokens == Refilled(old, t)
      under == RefilledLow(old, t, low)
      b == [tokens |-> IF HasToken(tokens, under) THEN tokens - TokenScale ELSE tokens,
            last |-> t, low |-> under]
  IN  [i \in (DOMAIN bs) \cup {ip} |-> IF i = ip THEN b ELSE bs[i]]

\* History of the allow calls of one identity: the run of calls made with no
\* elapsed time between them.  budget is the number of calls the scenario of the
\* run entitles it to (capacity for a first call; k after an exhausted run
\* followed by a wait of exactly k token periods), or -1 when the scenario
\* entitles it to nothing in particular.  It is computed from the calls and
\* the clock only, never from the bucket.
NoRun == [budget |-> -1, allowed |-> 0, denied |-> FALSE, at |-> -1]

Exhausted(run) == run.budget >= 0 /\ run.allowed = run.budget

RunBudget(run, t) ==
  LET e == t - run.at
  IN  IF run.at < 0 THEN capacity
      ELSE IF e = 0 THEN run.budget
      ELSE IF /\ Exhausted(run)
              /\ e % TokenScale = 0
              /\ e \div TokenScale <= capacity
           THEN e \div TokenScale
           ELSE -1

RunAfter(run, t, ok) ==
  LET same == run.at = t
      budget == RunBudget(run, t)
      before == IF same THEN run.allowed ELSE 0
  IN  [budget  |-> budget,
       allowed |-> IF budget < 0 THEN 0 ELSE IF ok THEN before + 1 ELSE before,
       denied  |-> IF budget < 0 THEN FALSE ELSE (same /\ run.denied) \/ ~ok,
       at      |-> t]

\* History of the waits of one identity.  zero is the time at which an allowed
\* call left the bucket at exactly 0 tokens (-1 when the latest allowed call
\* left more); polled says that a call was denied since, odd that one of the
\* denied calls came at a time that is no multiple of BinaryStep after zero;
\* granted is, right after the allowed call that ended a wait, the time that
\* had elapsed since the wait's zero (-1 otherwise), polled and odd then still
\* describing the wait that ended.
NoWait == [zero |-> -1, polled |-> FALSE, odd |-> FALSE, granted |-> -1]

WaitAfter(w, t, ok, b) ==
  LET cur == IF w.granted >= 0
             THEN [w EXCEPT !.polled = FALSE, !.odd = FALSE, !.granted = -1]
             ELSE w
      zero == IF b.tokens = 0 /\ ~b.low THEN t ELSE -1
  IN  IF ok
      THEN IF cur.zero >= 0
           THEN [zero |-> zero, polled |-> cur.polled, odd |-> cur.odd,
                 granted |-> t - cur.zero]
           ELSE [NoWait EXCEPT !.zero = zero]
      ELSE IF cur.zero >= 0
           THEN [cur EXCEPT !.polled = TRUE,
                            !.odd = cur.odd \/ (t - cur.zero) % BinaryStep # 0]
           ELSE NoWait

\* History of one observation window of one identity: the time at which the
\* observation started (-1 before it starts) and the calls allowed since.
NoWindow == [start |-> -1, count |-> 0]

WindowAfter(win, ok) ==
  IF win.start >= 0 /\ ok THEN [win EXCEPT !.count = win.count + 1] ELSE win

\* One call of takeToken(ip): bucket table and histories together.
TakeToken(ip, low) ==
  LET ok == takeTokenResult(buckets, ip, now, low)
      bs == takeTokenBuckets(buckets, ip, now, low)
  IN  /\ buckets' = bs
      /\ bursts' = [bursts EXCEPT ![ip] = RunAfter(bursts[ip], now, ok)]
      /\ waits' = [waits EXCEPT ![ip] = WaitAfter(waits[ip], now, ok, bs[ip])]
      /\ windows' = [windows EXCEPT ![ip] = WindowAfter(windows[ip], ok)]

\* ------------------------------------------------------------------ texts
\* JavaScript's undefined / null where a text is expected.
Undefined == <<"<undefined>">>
Null == <<"<null>">>

\* The truthiness of a text value (x || y, .filter(Boolean)).
Truthy(t) == t # Undefined /\ t # Null /\ t # <<>>

\* s.startsWith(p)
StartsWith(s, p) == Len(s) >= Len(p) /\ SubSeq(s, 1, Len(p)) = p

\* s.includes(part), on texts made of parts
Includes(s, part) == \E i \in 1..Len(s) : s[i] = part

\* String(new Error(msg)) and String(e) of the runtime's own errors
ErrorString(msg) == <<"Error:">> \o msg
FetchFailed == <<"TypeError:", "fetch failed">>
JsonInvalid == <<"SyntaxError:", "Unexpected token in JSON">>
NotAFunction == <<"TypeError:", "history.slice(...).map is not a function">>
NoToUpperCase == <<"TypeError:", "Cannot read properties of undefined (reading 'toUpperCase')">>

\* ------------------------------------------------------------------- CORS
ALLOWED_ORIGIN == <<"https://", "pranjalmax", ".github.io">>

\* const origin = req.headers.origin || "";
OriginOf(header) == IF Truthy(header) THEN header ELSE <<>>

\* Mutant: any declared origin is echoed.
AllowOriginEchoes(header) ==
  IF OriginOf(header) # <<>> THEN OriginOf(header) ELSE ALLOWED_ORIGIN

\* const allow = origin && origin.startsWith(ALLOWED_ORIGIN) ? origin : ALLOWED_ORIGIN;
AllowOrigin(header) ==
  LET origin == OriginOf(header)
  IN  IF origin # <<>> /\ StartsWith(origin, ALLOWED_ORIGIN) THEN origin ELSE ALLOWED_ORIGIN

\* ------------------------------------------------------- client identity
\* The x-forwarded-for header is the list of its comma-separated entries, each
\* an address with or without blanks around it; "" is the empty list.
Entry(addr, padded) == [addr |-> addr, padded |-> padded]
NoForward == [present |-> FALSE, entries |-> <<>>]
Forward(entries) == [present |-> TRUE, entries |-> entries]

\* xf.split(",")[0].trim(), else req.socket?.remoteAddress || "unknown"
ipFromReq(xf, remote) ==
  IF xf.present /\ Len(xf.entries) > 0 THEN xf.entries[1].addr
  ELSE IF remote # "" THEN remote
  ELSE "unknown"

\* ------------------------------------------------------------ input guard
MAX_CHARS == 800
\* "http://", the shortest text the URL pattern's scheme matches
SchemeLen == 7
\* \S{20,}
MinUrlTail == 20

\* A message text is a sequence of runs of characters of one class:
\*   "ws"   n blanks
\*   "word" n characters of the whitelist that are no blanks
\*   "url"  "http://" followed by n whitelisted non-blank characters
\*   "spam" the phrase "giveaway" (n = 8)
\*   "sym"  n characters outside the whitelist
Run(c, n) == [c |-> c, n |-> n]
RunLen(r) == IF r.c = "url" THEN SchemeLen + r.n ELSE r.n

RECURSIVE Length(_)
Length(runs) == IF runs = <<>> THEN 0 ELSE RunLen(Head(runs)) + Length(Tail(runs))

RECURSIVE TrimStart(_)
TrimStart(runs) ==
  IF runs # <<>> /\ Head(runs).c = "ws" THEN TrimStart(Tail(runs)) ELSE runs

RECURSIVE TrimEnd(_)
TrimEnd(runs) ==
  IF runs # <<>> /\ runs[Len(runs)].c = "ws"
  THEN TrimEnd(SubSeq(runs, 1, Len(runs) - 1)) ELSE runs

\* Mutant: the message is measured as it was sent.
TrimNone(runs) == runs

\* message.trim()
Trim(runs) == TrimEnd(TrimStart(runs))

\* The non-blank characters that follow position i's run, up to the next blank.
RECURSIVE NonBlankFrom(_, _)
NonBlankFrom(runs, i) ==
  IF i > Len(runs) \/ runs[i].c = "ws" THEN 0
  ELSE RunLen(runs[i]) + NonBlankFrom(runs, i + 1)

\* /https?:\/\/\S{20,}/i
LongUrl(runs) ==
  \E i \in 1..Len(runs) :
    runs[i].c = "url" /\ runs[i].n + NonBlankFrom(runs, i + 1) >= MinUrlTail

\* /(free\s*money|giveaway)/i
SpamPhrase(runs) == \E i \in 1..Len(runs) : runs[i].c = "spam"

\* /[^\w\s.,?!@()\-+/'":;%&]/u
OffWhitelist(runs) == \E i \in 1..Len(runs) : runs[i].c = "sym" /\ runs[i].n > 0

\* BLOCKED_PATTERNS.some((re) => re.test(trimmed))
Blocked(runs) == LongUrl(runs) \/ SpamPhrase(runs) \/ OffWhitelist(runs)

NoMessage == [type |-> "undefined", runs |-> <<>>]
NumberMessage == [type |-> "number", runs |-> <<>>]
Str(runs) == [type |-> "string", runs |-> runs]

\* Mutant: the blocked patterns are looked at before the length.
GuardStatusSpamFirst(message) ==
  IF message.type # "string" \/ Length(message.runs) = 0 THEN 400
  ELSE IF Trim(message.runs) = <<>> THEN 400
  ELSE IF Blocked(Trim(message.runs)) THEN 400
  ELSE IF Length(Trim(message.runs)) > MAX_CHARS THEN 413
  ELSE 0

\* The guard's verdict on a message: 0 when it passes, else the status.
\*   !message || typeof message !== "string"  -> 400
\*   !trimmed                                 -> 400
\*   trimmed.length > MAX_CHARS               -> 413
\*   blocked pattern                          -> 400
GuardStatus(message) ==
  IF message.type # "string" \/ Length(message.runs) = 0 THEN 400
  ELSE IF Trim(message.runs) = <<>> THEN 400
  ELSE IF Length(Trim(message.runs)) > MAX_CHARS THEN 413
  ELSE IF Blocked(Trim(message.runs)) THEN 400
  ELSE 0

GuardError(message) ==
  IF message.type # "string" \/ Length(message.runs) = 0 THEN "Provide 'message' (string)"
  ELSE IF Trim(message.runs) = <<>> THEN "Empty message"
  ELSE IF Length(Trim(message.runs)) > MAX_CHARS THEN "Message too long (max 800 chars)"
  ELSE "Message looks like spam. Try rephrasing."

\* ------------------------------------------------------- prompt assembler
HistoryWindow == 6

NoHistory == [type |-> "undefined", items |-> <<>>]
ObjectHistory == [type |-> "object", items |-> <<>>]
Arr(items) == [type |-> "array", items |-> items]
Turn(role, content) == [role |-> role, content |-> content]

\* const { message, history = [] } = ...: the default applies to undefined only
HistoryOrDefault(history) == IF history.type = "undefined" THEN Arr(<<>>) ELSE history

\* Mutant: the first n entries.
SliceFirst(items, n) ==
  IF Len(items) <= n THEN items ELSE SubSeq(items, 1, n)

\* history.slice(-6)
SliceLast(items, n) ==
  IF Len(items) <= n THEN items ELSE SubSeq(items, Len(items) - n + 1, Len(items))

\* h.role.toUpperCase()
ToUpperCase(role) ==
  CASE role = "user" -> "USER"
    [] role = "assistant" -> "ASSISTANT"
    [] OTHER -> role

\* The exception the assembler raises on this history, Null when it raises none.
ConvoError(history) ==
  LET h == HistoryOrDefault(history)
  IN  IF h.type # "array" THEN NotAFunction
      ELSE IF \E i \in 1..Len(SliceLast(h.items, HistoryWindow)) :
                SliceLast(h.items, HistoryWindow)[i].role = "<undefined>"
           THEN NoToUpperCase
           ELSE Null

\* history.slice(-6).map(h => `${h.role.toUpperCase()}: ${h.content}`)
Convo(history) ==
  LET w == SliceLast(HistoryOrDefault(history).items, HistoryWindow)
  IN  [i \in 1..Len(w) |-> <<ToUpperCase(w[i].role), w[i].content>>]

\* `${BIO}\n\nRECENT CONTEXT:\n${convo}\n\nUSER: ${trimmed}\n\nASSISTANT (...):`
Prompt(history, trimmed) == [convo |-> Convo(history), user |-> trimmed]
NoPrompt == [convo |-> <<>>, user |-> <<>>]

\* ------------------------------------------------------ fallback invoker
FallbackModels ==
  <<"llama-3.3-70b-versatile", "llama-3.1-70b-versatile", "llama-3.1-8b-instant",
    "mixtral-8x7b-32768", "gemma2-9b-it">>

\* Boolean(model), for .filter(Boolean)
IsSet(model) == model # "<undefined>" /\ model # ""

\* const DEFAULT_MODELS = [process.env.GROQ_MODEL, ...].filter(Boolean)
DEFAULT_MODELS == SelectSeq(<<groqModel>> \o FallbackModels, IsSet)

\* errText.includes("model_decommissioned") || errText.includes("not found")
\*   || errText.includes("unavailable")
Recoverable(errText) ==
  \/ Includes(errText, "model_decommissioned")
  \/ Includes(errText, "not found")
  \/ Includes(errText, "unavailable")

\* text.trim(), on a text whose blanks are the parts " "
RECURSIVE TrimText(_)
TrimText(t) ==
  IF t # <<>> /\ Head(t) = " " THEN TrimText(Tail(t))
  ELSE IF t # <<>> /\ t[Len(t)] = " " THEN TrimText(SubSeq(t, 1, Len(t) - 1))
  ELSE t

\* data?.choices?.[0]?.message?.content?.trim(): Undefined when a link is missing
AnswerOf(content) == IF content = Undefined THEN Undefined ELSE TrimText(content)

\* What one upstream call can come back with:
\*   "reject"  fetch itself fails
\*   "error"   a non-2xx response whose body text is `text`
\*   "ok"      a 2xx response whose first choice carries `content`
\*   "badjson" a 2xx response whose body does not parse
Outcome(kind, text, content) == [kind |-> kind, text |-> text, content |-> content]
NoOutcome == Outcome("none", <<>>, Undefined)

\* The answer a model gives: three sentences, with blanks around them in the
\* content the upstream sends.
Sentences(model) == <<model \o " answers.", "It goes on.", "It ends.">>
AnswerContent(model) == <<" ">> \o Sentences(model) \o <<" ">>

ErrorBodies ==
  { <<"code:", "model_decommissioned">>, <<"model", "not found">>,
    <<"service", "unavailable">>, <<"rate_limit_exceeded">>, <<>> }

UpstreamOutcomes(model) ==
  {Outcome("reject", <<>>, Undefined), Outcome("badjson", <<>>, Undefined)}
    \cup {Outcome("error", t, Undefined) : t \in ErrorBodies}
    \cup {Outcome("ok", <<>>, c) : c \in {AnswerContent(model), <<" ">>, Undefined}}

\* Mutant: any 2xx response is returned as the answer.
ReturnsAnyOk(o) == o.kind = "ok"

\* if (answer) return answer;
ReturnsAnswer(o) == o.kind = "ok" /\ Truthy(AnswerOf(o.content))

\* A non-2xx response whose body does not name the recoverable condition:
\* line 313 throws new Error(errText) inside the try of line 290, so the catch of
\* line 319 receives it.
ThrowsFatal(o) == o.kind = "error" /\ ~Recoverable(o.text)

\* lastError after an iteration that did not return (lines 311, 318, 319).
RecordedError(o) ==
  CASE o.kind = "reject" -> FetchFailed
    [] o.kind = "badjson" -> JsonInvalid
    [] o.kind = "error" /\ Recoverable(o.text) -> o.text
    [] o.kind = "error" /\ ~Recoverable(o.text) -> ErrorString(o.text)
    [] OTHER -> <<"Empty response">>

\* Mutant: the recorded error is dropped.
ExhaustedMessageGeneric(lastError) == <<"All models failed">>

\* throw new Error(lastError || "All models failed")
ExhaustedMessage(lastError) ==
  IF Truthy(lastError) THEN lastError ELSE <<"All models failed">>

\* --------------------------------------------------------------- flavoring
OPENERS == 10
CLOSERS == 5
Opener(i) == "opener " \o ToString(i)
Closer(j) == "Closer " \o ToString(j) \o "."

\* Math.random(), in hundredths.
Randoms == {10, 70, 90}

\* arr[Math.floor(Math.random() * arr.length)], as a position from 1
pick(n, rnd) == (rnd * n) \div 100 + 1

\* prepend ? `${pick(OPENERS)} ${raw}` : `${raw} ${... ? pick(CLOSERS) : ""}`.trim()
\* with prepend = Math.random() < 0.6 and a closer when Math.random() < 0.8.
\* An opener ends no sentence, so it joins the first one; a closer is a sentence.
\* The draws of one request all come out as rnd.
Flavored(raw, rnd) ==
  IF rnd < 60 THEN <<Opener(pick(OPENERS, rnd)) \o " " \o Head(raw)>> \o Tail(raw)
  ELSE IF rnd < 80 THEN raw \o <<Closer(pick(CLOSERS, rnd))>>
  ELSE raw

\* chunks of three sentences, joined by blank lines
RECURSIVE Chunks(_)
Chunks(t) ==
  IF Len(t) <= 3 THEN t
  ELSE SubSeq(t, 1, 3) \o <<"\n\n">> \o Chunks(SubSeq(t, 4, Len(t)))

\* formatParagraphs(text), on a text of sentences and "\n\n" separators
formatParagraphs(t) ==
  IF Includes(t, "\n\n") THEN TrimText(t)
  ELSE IF Len(t) < 4 THEN TrimText(t)
  ELSE TrimText(Chunks(t))

\* ------------------------------------------------------------------ state
EmptyMap == [i \in {} |-> 0]

\* One handler invocation.  pc is "idle" before the call, "fetch" while the
\* invoker awaits an upstream call, "done" once the response is sent.
Slots == {1, 2, 3}

NoBody == [error |-> "", detail |-> <<>>, answer |-> <<>>, assistant |-> ""]

Idle ==
  [pc |-> "idle", method |-> "", origin |-> Undefined, ip |-> "",
   message |-> NoMessage, history |-> NoHistory,
   allowed |-> FALSE,       \* what takeToken returned, FALSE when not called
   prompt |-> NoPrompt,
   idx |-> 0,               \* position in DEFAULT_MODELS of the current candidate
   calls |-> <<>>,          \* the models of the upstream calls issued, in order
   pending |-> {},          \* positions of the upstream calls not yet settled
   lastError |-> Null,
   settled |-> 0,           \* history: the upstream calls that have come back
   allRecovered |-> TRUE,   \* history: every settled call but the latest named
                            \* the recoverable condition
   last |-> NoOutcome,      \* history: what the latest upstream call came back with
   raw |-> Undefined,       \* what callGroqWithFallback returned
   thrown |-> Null,         \* the message of the Error callGroqWithFallback threw
   sent |-> 0,              \* history: the responses sent
   status |-> 0, headers |-> EmptyMap, body |-> NoBody]

CorsHeader(allow) == [h \in {"Access-Control-Allow-Origin"} |-> allow]

PreflightHeaders(allow) ==
  [h \in {"Access-Control-Allow-Origin", "Access-Control-Allow-Methods",
          "Access-Control-Allow-Headers"} |->
     CASE h = "Access-Control-Allow-Origin" -> allow
       [] h = "Access-Control-Allow-Methods" -> <<"POST", "OPTIONS">>
       [] OTHER -> <<"Content-Type", "Authorization">>]

\* res.setHeader("Access-Control-Allow-Origin", allow); return res.status(s).json(b)
Respond(q, status, body) ==
  [q EXCEPT !.pc = "done", !.status = status, !.sent = q.sent + 1,
            !.headers = CorsHeader(AllowOrigin(q.origin)), !.body = body]

ErrorBody(error) == [NoBody EXCEPT !.error = error]
FaultBody(detail) == [NoBody EXCEPT !.error = "Server error", !.detail = detail]
AnswerBody(answer) == [NoBody EXCEPT !.answer = answer, !.assistant = "Max-AI Assistant"]

\* Mutant: the catch block forgets the header.
FaultNoHeader(q, detail) ==
  [Respond(q, 500, FaultBody(detail)) EXCEPT !.headers = EmptyMap]

\* catch (e) of line 277: e is an Error with this String(e)
Fault(q, detail) == Respond(q, 500, FaultBody(detail))

\* Mutant: every candidate is called at once.
InvokeAll(q, prompt) ==
  [q EXCEPT !.pc = "fetch", !.prompt = prompt, !.lastError = Null,
            !.idx = 1, !.calls = DEFAULT_MODELS,
            !.pending = 1..Len(DEFAULT_MODELS)]

\* callGroqWithFallback(prompt) up to its first await: the first candidate's call
Invoke(q, prompt) ==
  [q EXCEPT !.pc = "fetch", !.prompt = prompt, !.lastError = Null,
            !.idx = 1, !.calls = <<DEFAULT_MODELS[1]>>, !.pending = {1}]

\* Mutant: the upstream call is issued before the limiter and the guard are
\* looked at.
AfterLimiterLate(q) ==
  LET started == Invoke(q, Prompt(NoHistory, Trim(q.message.runs)))
  IN  IF ~q.allowed
      THEN Respond(started, 429, ErrorBody("Too many requests, please wait a bit."))
      ELSE IF GuardStatus(q.message) # 0
      THEN Respond(started, GuardStatus(q.message), ErrorBody(GuardError(q.message)))
      ELSE IF ConvoError(q.history) # Null THEN Fault(q, ConvoError(q.history))
      ELSE Invoke(q, Prompt(q.history, Trim(q.message.runs)))

\* Mutant: the assembler's exception escapes the handler.
AfterLimiterUncaught(q) ==
  IF ~q.allowed THEN Respond(q, 429, ErrorBody("Too many requests, please wait a bit."))
  ELSE IF GuardStatus(q.message) # 0
       THEN Respond(q, GuardStatus(q.message), ErrorBody(GuardError(q.message)))
  ELSE IF ConvoError(q.history) # Null THEN [q EXCEPT !.pc = "done"]
  ELSE Invoke(q, Prompt(q.history, Trim(q.message.runs)))

\* The handler from the rate limiter's verdict on (lines 125-264).
AfterLimiter(q) ==
  IF ~q.allowed THEN Respond(q, 429, ErrorBody("Too many requests, please wait a bit."))
  ELSE IF GuardStatus(q.message) # 0
       THEN Respond(q, GuardStatus(q.message), ErrorBody(GuardError(q.message)))
  ELSE IF ConvoError(q.history) # Null THEN Fault(q, ConvoError(q.history))
  ELSE Invoke(q, Prompt(q.history, Trim(q.message.runs)))

\* Mutant: the limiter is asked before the method is looked at.
HandlerStartLimiterFirst(r, method, origin, xf, remote, message, history) ==
  LET ip == ipFromReq(xf, remote)
      q == [Idle EXCEPT !.method = method, !.origin = origin,
                        !.message = message, !.history = history]
  IN  /\ reqs[r].pc \in {"idle", "done"}
      /\ \E low \in Roundings(BucketOf(buckets, ip, now), now) :
           /\ TakeToken(ip, low)
           /\ IF method = "OPTIONS"
              THEN reqs' = [reqs EXCEPT ![r] =
                        [q EXCEPT !.pc = "done", !.status = 200, !.sent = 1,
                                  !.headers = PreflightHeaders(AllowOrigin(origin))]]
              ELSE IF method # "POST"
              THEN reqs' = [reqs EXCEPT ![r] = Respond(q, 405, ErrorBody("Use POST"))]
              ELSE reqs' = [reqs EXCEPT ![r] =
                        AfterLimiter([q EXCEPT !.ip = ip,
                                       !.allowed = takeTokenResult(buckets, ip, now, low)])]
      /\ UNCHANGED <<now, groqModel>>

\* handler(req, res) up to its first await.
HandlerStart(r, method, origin, xf, remote, message, history) ==
  LET ip == ipFromReq(xf, remote)
      q == [Idle EXCEPT !.method = method, !.origin = origin,
                        !.message = message, !.history = history]
  IN  /\ reqs[r].pc \in {"idle", "done"}
      /\ IF method = "OPTIONS"
         THEN /\ reqs' = [reqs EXCEPT ![r] =
                   [q EXCEPT !.pc = "done", !.status = 200, !.sent = 1,
                             !.headers = PreflightHeaders(AllowOrigin(origin))]]
              /\ UNCHANGED <<buckets, bursts, waits, windows>>
         ELSE IF method # "POST"
         THEN /\ reqs' = [reqs EXCEPT ![r] = Respond(q, 405, ErrorBody("Use POST"))]
              /\ UNCHANGED <<buckets, bursts, waits, windows>>
         ELSE \E low \in Roundings(BucketOf(buckets, ip, now), now) :
                /\ TakeToken(ip, low)
                /\ reqs' = [reqs EXCEPT ![r] =
                     AfterLimiter([q EXCEPT !.ip = ip,
                                    !.allowed = takeTokenResult(buckets, ip, now, low)])]
      /\ UNCHANGED <<now, groqModel>>

\* One iteration of the loop of line 289 settles (lines 308-319), and the code
\* runs on to the next await or to the response.
Settled(q, o) ==
  [q EXCEPT !.pending = q.pending \ {q.idx},
            !.settled = q.settled + 1,
            !.allRecovered = q.allRecovered /\
               (q.last.kind = "none" \/ (q.last.kind = "error" /\ Recoverable(q.last.text))),
            !.last = o]

\* Mutant: the same candidate is tried again.
NextCandidateRetries(q) ==
  [q EXCEPT !.calls = Append(q.calls, DEFAULT_MODELS[q.idx]),
            !.pending = q.pending \cup {q.idx}]

NextCandidate(q) ==
  [q EXCEPT !.idx = q.idx + 1,
            !.calls = Append(q.calls, DEFAULT_MODELS[q.idx + 1]),
            !.pending = q.pending \cup {q.idx + 1}]

\* Mutant: after the last candidate the handler neither answers nor goes on.
GiveUpHangs(q) == [q EXCEPT !.pc = "hung"]

\* The loop is over: line 321 throws, line 277 catches.
GiveUp(q) ==
  LET msg == ExhaustedMessage(q.lastError)
  IN  Fault([q EXCEPT !.thrown = msg], ErrorString(msg))

\* The invoker returned raw (its local lastError is gone): lines 266-276.
Succeed(q, raw, rnd) ==
  Respond([q EXCEPT !.raw = raw, !.lastError = Null], 200,
          AnswerBody(formatParagraphs(Flavored(raw, rnd))))

\* An iteration that did not return: the error is recorded and the loop goes on
\* to the next candidate, or ends.
Continue(q, o) ==
  LET e == [q EXCEPT !.lastError = RecordedError(o)]
  IN  IF e.idx < Len(DEFAULT_MODELS) THEN NextCandidate(e) ELSE GiveUp(e)

\* Mutant: the token is given back when every candidate has failed.
UpstreamReturnsRefunds(r, o, rnd) ==
  LET q == Settled(reqs[r], o)
      after == IF ReturnsAnswer(o) THEN Succeed(q, AnswerOf(o.content), rnd)
               ELSE Continue(q, o)
  IN  /\ reqs[r].pc = "fetch"
      /\ reqs' = [reqs EXCEPT ![r] = after]
      /\ buckets' = IF after.status = 500
                    THEN [buckets EXCEPT ![q.ip].tokens = @ + TokenScale]
                    ELSE buckets
      /\ UNCHANGED <<now, groqModel, bursts, waits, windows>>

UpstreamReturns(r, o, rnd) ==
  LET q == Settled(reqs[r], o)
  IN  /\ reqs[r].pc = "fetch"
      /\ reqs' = [reqs EXCEPT ![r] =
            IF ReturnsAnswer(o) THEN Succeed(q, AnswerOf(o.content), rnd)
            ELSE Continue(q, o)]
      /\ UNCHANGED <<now, buckets, groqModel, bursts, waits, windows>>

\* ------------------------------------------------------------ environments
GroqModels == {"<undefined>", "custom-model", "llama-3.3-70b-versatile"}

Init ==
  /\ now = 0
  /\ buckets = EmptyMap
  /\ groqModel \in GroqModels
  /\ reqs = [r \in Slots |-> Idle]
  /\ bursts = [i \in IPs |-> NoRun]
  /\ waits = [i \in IPs |-> NoWait]
  /\ windows = [i \in IPs |-> NoWindow]

\* The limiter called directly, as a unit under an injectable clock.
AllowCall(ip) ==
  /\ \E low \in Roundings(BucketOf(buckets, ip, now), now) : TakeToken(ip, low)
  /\ UNCHANGED <<now, groqModel, reqs>>

LimiterTick(d) ==
  /\ now < MaxNow
  /\ now' = now + d
  /\ UNCHANGED <<buckets, groqModel, reqs, bursts, waits, windows>>

LimiterNext ==
  \/ \E ip \in IPs : AllowCall(ip)
  \/ \E d \in TickSizes : LimiterTick(d)

\* The limiter never reads the environment: one environment is enough.
LimiterInit == Init /\ groqModel = "<undefined>"

SpecLimiter == LimiterInit /\ [][LimiterNext]_vars

\* One client polling the limiter every sixth of a token period, or waiting a
\* whole period.
PollTicks == {1250, 7500}

PollNext ==
  \/ AllowCall("10.0.0.1")
  \/ \E d \in PollTicks : LimiterTick(d)

SpecPolling == LimiterInit /\ [][PollNext]_vars

\* One client's calls, observed over an interval that starts at any moment.
StartWindow(ip) ==
  /\ windows[ip].start < 0
  /\ windows' = [windows EXCEPT ![ip] = [start |-> now, count |-> 0]]
  /\ UNCHANGED <<now, buckets, groqModel, reqs, bursts, waits>>

WindowNext ==
  \/ AllowCall("10.0.0.1")
  \/ StartWindow("10.0.0.1")
  \/ \E d \in TickSizes : LimiterTick(d)

SpecWindow == LimiterInit /\ [][WindowNext]_vars

\* The handler serving one client's requests one after the other.
Methods == {"OPTIONS", "POST", "GET"}

Foreign == <<"https://", "evil.example">>

Origins ==
  { Undefined, <<>>, ALLOWED_ORIGIN, ALLOWED_ORIGIN \o <<".evil.example">>,
    Foreign, <<"https://", "pranjalmax">> }

\* Request headers and sockets that all name the client 10.0.0.1.
Direct == [xf |-> Forward(<<Entry("10.0.0.1", FALSE)>>), remote |-> ""]

Forwarded ==
  { Direct,
    [xf |-> Forward(<<Entry("10.0.0.1", TRUE), Entry("10.0.0.2", TRUE)>>),
     remote |-> "10.0.0.2"],
    [xf |-> NoForward, remote |-> "10.0.0.1"],
    [xf |-> Forward(<<>>), remote |-> "10.0.0.1"] }

Hello == Str(<<Run("word", 5)>>)

Messages ==
  { NoMessage, NumberMessage, Str(<<>>), Str(<<Run("ws", 3)>>),
    Str(<<Run("ws", MAX_CHARS + 1)>>),
    Hello,
    Str(<<Run("ws", 2), Run("word", MAX_CHARS), Run("ws", 2)>>),
    Str(<<Run("word", MAX_CHARS + 1)>>),
    Str(<<Run("word", MAX_CHARS - 7), Run("spam", 8)>>),
    Str(<<Run("word", 5), Run("ws", 1), Run("spam", 8)>>),
    Str(<<Run("url", MinUrlTail)>>),
    Str(<<Run("word", 2), Run("sym", 1)>>) }

Turns(n) == [i \in 1..n |-> Turn(IF i % 2 = 1 THEN "user" ELSE "assistant", ToString(i))]

Histories ==
  { NoHistory, ObjectHistory, Arr(Turns(2)),
    Arr(Turns(HistoryWindow + 1)),
    Arr(<<Turn("user", "1"), Turn("<undefined>", "2")>>) }

Request(method, origin, from, message, history) ==
  [method |-> method, origin |-> origin, from |-> from,
   message |-> message, history |-> history]

\* The requests the client sends: every method from every origin, and POSTs
\* that vary the forwarding, the message and the history.
Requests ==
  {Request(m, o, Direct, NoMessage, ObjectHistory) : m \in Methods, o \in Origins}
    \cup {Request("POST", ALLOWED_ORIGIN, f, Str(<<>>), NoHistory) : f \in Forwarded}
    \cup {Request("POST", ALLOWED_ORIGIN, Direct, m, NoHistory) : m \in Messages}
    \cup {Request("POST", Foreign, Direct, Hello, NoHistory)}
    \cup {Request("POST", ALLOWED_ORIGIN, Direct, Hello, h) : h \in Histories}

Tick(d) ==
  /\ now < MaxHandlerNow
  /\ now' = now + d
  /\ UNCHANGED <<buckets, groqModel, reqs, bursts, waits, windows>>

Arrives(r) ==
  \E q \in Requests :
    HandlerStart(r, q.method, q.origin, q.from.xf, q.from.remote, q.message, q.history)

Returns(r) ==
  /\ reqs[r].pc = "fetch"
  /\ \E o \in UpstreamOutcomes(reqs[r].calls[Len(reqs[r].calls)]) :
       \E rnd \in (IF ReturnsAnswer(o) THEN Randoms ELSE {90}) :
         UpstreamReturns(r, o, rnd)

Next ==
  \/ Arrives(1)
  \/ Returns(1)
  \/ Tick(TokenScale)

Spec == Init /\ [][Next]_vars

\* Requests of one client that overlap: a request arrives while another one of
\* the same client is suspended at an upstream call.  The event loop runs each
\* handler from one await to the next without interruption, so the steps that
\* interleave are HandlerStart and UpstreamReturns.
ConcurrentRequests ==
  {Request("POST", ALLOWED_ORIGIN, Direct, m, NoHistory) : m \in {Hello, Str(<<>>)}}

ConcurrentOutcomes(model) ==
  {Outcome("reject", <<>>, Undefined), Outcome("ok", <<>>, AnswerContent(model))}

ConcurrentArrives(r) ==
  \E q \in ConcurrentRequests :
    HandlerStart(r, q.method, q.origin, q.from.xf, q.from.remote, q.message, q.history)

ConcurrentReturns(r) ==
  /\ reqs[r].pc = "fetch"
  /\ \E o \in ConcurrentOutcomes(reqs[r].calls[Len(reqs[r].calls)]) :
       UpstreamReturns(r, o, 90)

ConcurrentNext ==
  \/ \E r \in Slots : ConcurrentArrives(r)
  \/ \E r \in Slots : ConcurrentReturns(r)

SpecConcurrent == LimiterInit /\ [][ConcurrentNext]_vars

\* Two clients whose requests alternate.  Their POSTs carry an empty message,
\* so each request ends in the step that asks the limiter: 429 when denied,
\* 400 when allowed.
Other == [xf |-> Forward(<<Entry("10.0.0.2", FALSE)>>), remote |-> ""]

TwoClientRequests ==
  {Request("POST", ALLOWED_ORIGIN, f, Str(<<>>), NoHistory) : f \in {Direct, Other}}

TwoClientArrives(r) ==
  \E q \in TwoClientRequests :
    HandlerStart(r, q.method, q.origin, q.from.xf, q.from.remote, q.message, q.history)

TwoClientNext ==
  \/ TwoClientArrives(1)
  \/ TwoClientArrives(2)
  \/ Tick(TokenScale)

SpecTwoClients == LimiterInit /\ [][TwoClientNext]_vars

\* One client's requests, every upstream call coming back in the end: the
\* promise of fetch settles, and the event loop then resumes the handler that
\* awaits it.
LiveRequests ==
  ConcurrentRequests
    \cup {Request(m, ALLOWED_ORIGIN, Direct, NoMessage, NoHistory) : m \in {"OPTIONS", "GET"}}
    \cup {Request("POST", ALLOWED_ORIGIN, Direct, Hello, ObjectHistory)}

LiveOutcomes(model) ==
  ConcurrentOutcomes(model)
    \cup {Outcome("error", <<"rate_limit_exceeded">>, Undefined),
          Outcome("error", <<"model", "not found">>, Undefined),
          Outcome("ok", <<>>, <<" ">>)}

LiveArrives(r) ==
  \E q \in LiveRequests :
    HandlerStart(r, q.method, q.origin, q.from.xf, q.from.remote, q.message, q.history)

LiveReturns(r) ==
  /\ reqs[r].pc = "fetch"
  /\ \E o \in LiveOutcomes(reqs[r].calls[Len(reqs[r].calls)]) :
       UpstreamReturns(r, o, 90)

LiveNext ==
  \/ LiveArrives(1)
  \/ LiveReturns(1)

SpecLive == Init /\ [][LiveNext]_vars /\ WF_vars(LiveReturns(1))

\* ----------------------------------------------------------------- claims
\* C1: for every identity, after any sequence of allow calls and clock
\* advances, the stored bucket has 0 <= tokens <= capacity.
C1_TokensWithinBounds ==
  \A ip \in DOMAIN buckets :
    /\ 0 <= buckets[ip].tokens
    /\ buckets[ip].tokens <= capacity * TokenScale

\* A denied call, made after time went by, has left a fraction of a token.
C1_Witness ==
  \E ip \in DOMAIN buckets :
    /\ buckets[ip].last > 0
    /\ 0 < buckets[ip].tokens
    /\ buckets[ip].tokens < TokenScale

\* C2: from a full bucket exactly `capacity` immediate calls are allowed and the
\* next is denied; after an exhausted run and a wait of exactly k token periods
\* (k <= capacity) exactly k immediate calls are allowed and the next is denied.
C2_ExactBurst ==
  \A ip \in IPs :
    bursts[ip].budget >= 0 =>
      /\ bursts[ip].allowed <= bursts[ip].budget
      /\ bursts[ip].denied => bursts[ip].allowed = bursts[ip].budget

\* After an exhausted run and a wait of two token periods, two calls were
\* allowed and the third was denied.
C2_Witness ==
  \E ip \in IPs :
    /\ bursts[ip].at > 0
    /\ bursts[ip].budget = 2
    /\ bursts[ip].allowed = 2
    /\ bursts[ip].denied

\* C3: when a candidate's call fails with a non-2xx response that does not name
\* the recoverable condition, the invoker raises that error at once and no later
\* candidate is attempted.
C3_FatalStopsInvoker ==
  \A r \in Slots :
    ThrowsFatal(reqs[r].last) =>
      /\ reqs[r].pending = {}
      /\ Len(reqs[r].calls) = reqs[r].settled
      /\ reqs[r].thrown = reqs[r].last.text
      /\ reqs[r].status = 500

\* An upstream outcome that carries a usable, non-empty answer.
Usable(o) ==
  /\ o.kind = "ok"
  /\ o.content # Undefined
  /\ \E i \in 1..Len(o.content) : o.content[i] # " "

\* C4: when the first n-1 candidates each name the recoverable condition and the
\* n-th returns a usable answer, the result is the n-th candidate's answer and
\* exactly n upstream calls were made, one per candidate, in list order.
C4_FallbackAnswer ==
  \A r \in Slots :
    LET q == reqs[r]
        n == q.settled
    IN  (n >= 1 /\ q.allRecovered /\ Usable(q.last)) =>
          /\ n <= Len(DEFAULT_MODELS)
          /\ q.raw = Sentences(DEFAULT_MODELS[n])
          /\ q.calls = SubSeq(DEFAULT_MODELS, 1, n)
          /\ q.pc = "done"

\* Two candidates named the recoverable condition and the third answered.
C4_Witness ==
  \E r \in Slots :
    /\ reqs[r].settled = 3
    /\ reqs[r].allRecovered
    /\ reqs[r].raw = Sentences(DEFAULT_MODELS[3])
    /\ reqs[r].status = 200

\* C5: a request that ends with 429, 400 or 413 has issued no upstream call, and
\* a request the limiter rejects has run no later stage.
C5_NoUpstreamOnReject ==
  \A r \in Slots :
    /\ reqs[r].status \in {429, 400, 413} =>
         reqs[r].calls = <<>> /\ reqs[r].pending = {}
    /\ reqs[r].status = 429 => reqs[r].prompt = NoPrompt /\ ~reqs[r].allowed

\* The limiter has rejected a POST with a valid message.
C5_Witness ==
  \E r \in Slots :
    /\ reqs[r].status = 429
    /\ reqs[r].message = Hello
    /\ reqs[r].calls = <<>>

\* C6: the invoker has at most one upstream call in flight, calls the candidates
\* in list order, and after the first usable answer issues no further call and
\* returns that answer.
C6_Sequential ==
  \A r \in Slots :
    LET q == reqs[r]
    IN  /\ Cardinality(q.pending) <= 1
        /\ Len(q.calls) <= Len(DEFAULT_MODELS)
        /\ q.calls = SubSeq(DEFAULT_MODELS, 1, Len(q.calls))
        /\ q.pending \subseteq {Len(q.calls)}
        /\ Usable(q.last) =>
             /\ q.pending = {}
             /\ Len(q.calls) = q.settled
             /\ q.raw = Sentences(q.calls[Len(q.calls)])

\* The second candidate answered after the first had failed, and nothing is in
\* flight.
C6_Witness ==
  \E r \in Slots :
    /\ reqs[r].settled = 2
    /\ reqs[r].last.kind = "ok"
    /\ reqs[r].raw = Sentences(DEFAULT_MODELS[2])
    /\ reqs[r].pending = {}

\* C7: within one call of the invoker no model identifier is attempted twice,
\* whatever the environment override.
C7_EachModelOnce ==
  \A r \in Slots :
    \A i, j \in 1..Len(reqs[r].calls) :
      i # j => reqs[r].calls[i] # reqs[r].calls[j]

\* The text `tail` ends the text `whole`.
EndsWith(whole, tail) ==
  /\ Len(whole) >= Len(tail)
  /\ SubSeq(whole, Len(whole) - Len(tail) + 1, Len(whole)) = tail

\* The error the code is to record for an upstream outcome that is no answer.
ErrorOf(o) ==
  CASE o.kind = "ok" -> <<"Empty response">>
    [] o.kind = "reject" -> FetchFailed
    [] o.kind = "badjson" -> JsonInvalid
    [] OTHER -> IF \E i \in 1..Len(o.text) :
                     o.text[i] \in {"model_decommissioned", "not found", "unavailable"}
                THEN o.text ELSE <<"Error:">> \o o.text

\* C8: when every candidate has been tried without a usable answer, the invoker
\* fails with the error recorded for the last candidate, and the handler answers
\* 500 with a body {error, detail} whose detail carries that error.
C8_ExhaustedCarriesLastError ==
  \A r \in Slots :
    LET q == reqs[r]
    IN  (q.settled >= 1 /\ q.settled = Len(DEFAULT_MODELS) /\ q.raw = Undefined) =>
          /\ q.pc = "done"
          /\ q.thrown = ErrorOf(q.last)
          /\ q.status = 500
          /\ q.body.error = "Server error"
          /\ EndsWith(q.body.detail, ErrorOf(q.last))

\* Every candidate was tried and the last one sent an empty answer.
C8_Witness ==
  \E r \in Slots :
    /\ reqs[r].settled = Len(DEFAULT_MODELS)
    /\ reqs[r].last.kind = "ok"
    /\ reqs[r].raw = Undefined
    /\ reqs[r].status = 500
    /\ reqs[r].body.detail = <<"Error:", "Empty response">>

\* C9: every response sent (200 preflight, 405, 429, 400, 413, 500, 200) has the
\* Access-Control-Allow-Origin header, and a handler that is over has sent one.
C9_CorsOnEveryResponse ==
  \A r \in Slots :
    /\ reqs[r].pc = "done" => reqs[r].status \in {200, 405, 429, 400, 413, 500}
    /\ reqs[r].status # 0 =>
         /\ reqs[r].pc = "done"
         /\ "Access-Control-Allow-Origin" \in DOMAIN reqs[r].headers

\* The error path of the top-level catch has answered 500 after upstream calls.
C9_Witness ==
  \E r \in Slots :
    /\ reqs[r].status = 500
    /\ reqs[r].calls # <<>>
    /\ "Access-Control-Allow-Origin" \in DOMAIN reqs[r].headers

\* The declared origin is non-empty and begins with the expected origin.
Matches(origin) ==
  /\ origin # Undefined
  /\ Len(origin) >= Len(ALLOWED_ORIGIN)
  /\ \A i \in 1..Len(ALLOWED_ORIGIN) : origin[i] = ALLOWED_ORIGIN[i]

\* C10: the Access-Control-Allow-Origin of a response is the request's declared
\* origin exactly when that origin is non-empty and begins with the expected
\* origin, and the fixed default origin otherwise.
C10_AllowOriginValue ==
  \A r \in Slots :
    reqs[r].status # 0 =>
      LET v == reqs[r].headers["Access-Control-Allow-Origin"]
      IN  /\ (v = reqs[r].origin) <=> Matches(reqs[r].origin)
          /\ ~Matches(reqs[r].origin) => v = ALLOWED_ORIGIN

\* An origin that extends the expected one was echoed, on an error response.
C10_Witness ==
  \E r \in Slots :
    /\ reqs[r].status = 400
    /\ reqs[r].origin = ALLOWED_ORIGIN \o <<".evil.example">>
    /\ reqs[r].headers["Access-Control-Allow-Origin"] = reqs[r].origin

\* C11: requests of one identity that are in flight at the same time lose no
\* bucket update: with no elapsed time, after any interleaving of their steps
\* the bucket holds the capacity less one token per allowed request, no more
\* than capacity requests are allowed, and a request is denied only once
\* capacity requests have been allowed.
C11_NoLostUpdate ==
  \A ip \in DOMAIN buckets :
    bursts[ip].budget = capacity =>
      /\ buckets[ip].tokens = (capacity - bursts[ip].allowed) * TokenScale
      /\ bursts[ip].allowed <= capacity
      /\ bursts[ip].denied => bursts[ip].allowed = capacity

\* A request is denied while an allowed request of the same identity is still
\* awaiting its upstream call.
C11_Witness ==
  /\ reqs[1].pc = "fetch" /\ reqs[1].allowed
  /\ reqs[2].pc = "done" /\ reqs[2].status = 429
  /\ reqs[1].ip = reqs[2].ip
  /\ bursts[reqs[1].ip].allowed = capacity

\* The part of a text between its first and its last character that is no
\* blank (the empty text when there is none).
Blank(runs) == \A i \in 1..Len(runs) : runs[i].c = "ws"

Core(runs) ==
  IF Blank(runs) THEN <<>>
  ELSE LET first == CHOOSE i \in 1..Len(runs) :
                      runs[i].c # "ws" /\ \A j \in 1..(i - 1) : runs[j].c = "ws"
           last == CHOOSE i \in 1..Len(runs) :
                     runs[i].c # "ws" /\ \A j \in (i + 1)..Len(runs) : runs[j].c = "ws"
       IN  SubSeq(runs, first, last)

\* C12: the guard's checks run in the order missing or non-text (400), empty
\* after trim (400), longer than 800 after trim (413), blocked pattern (400),
\* and the response is that of the first check that fails: an over-long
\* message that also matches a spam pattern gets 413.
C12_GuardOrder ==
  \A r \in Slots :
    LET q == reqs[r]
        m == q.message
    IN  (q.method = "POST" /\ q.allowed) =>
          IF m.type # "string" \/ m.runs = <<>>
          THEN q.status = 400 /\ q.body.error = "Provide 'message' (string)"
          ELSE IF Blank(m.runs)
          THEN q.status = 400 /\ q.body.error = "Empty message"
          ELSE IF Length(Core(m.runs)) > 800
          THEN q.status = 413 /\ q.body.error = "Message too long (max 800 chars)"
          ELSE IF Blocked(Core(m.runs))
          THEN q.status = 400 /\ q.body.error = "Message looks like spam. Try rephrasing."
          ELSE q.status \notin {400, 413}

\* An over-long message that carries the spam phrase was answered 413.
C12_Witness ==
  /\ reqs[1].allowed /\ reqs[1].status = 413
  /\ SpamPhrase(reqs[1].message.runs)
  /\ Length(reqs[1].message.runs) > 800

\* C13: the length is that of the trimmed message: trimmed length 800 passes
\* the length check, trimmed length 801 is answered 413, and a message that is
\* empty or all blanks is answered 400 whatever its untrimmed length.
C13_LengthOfTrimmed ==
  \A r \in Slots :
    LET q == reqs[r]
        m == q.message
    IN  (q.method = "POST" /\ q.allowed /\ m.type = "string") =>
          /\ Blank(m.runs) => q.status = 400 /\ q.calls = <<>>
          /\ (~Blank(m.runs) /\ Length(Core(m.runs)) = 800) =>
                /\ q.status # 413
                /\ ~Blocked(Core(m.runs)) => q.status # 400 /\ q.calls # <<>>
          /\ Length(Core(m.runs)) = 801 => q.status = 413 /\ q.calls = <<>>

\* A message of 800 characters between blanks (804 in all) was answered, and
\* the prompt carries its 800 characters.
C13_Witness ==
  /\ reqs[1].status = 200
  /\ Length(reqs[1].message.runs) = 804
  /\ Length(reqs[1].prompt.user) = 800

\* C14: a request whose method is OPTIONS ends 200 and one whose method is
\* neither POST nor OPTIONS ends 405 before the limiter runs: the step leaves
\* the bucket table as it was, the response does not depend on the body, and
\* no upstream call is issued.
C14_MethodsBeforeLimiter ==
  [][\A r \in Slots :
       (reqs'[r] # reqs[r] /\ reqs'[r].method \notin {"POST", ""}) =>
         /\ buckets' = buckets
         /\ reqs'[r].pc = "done"
         /\ reqs'[r].status = (IF reqs'[r].method = "OPTIONS" THEN 200 ELSE 405)
         /\ reqs'[r].body.error = (IF reqs'[r].method = "OPTIONS" THEN "" ELSE "Use POST")
         /\ ~reqs'[r].allowed
         /\ reqs'[r].calls = <<>>]_vars

\* A GET was answered 405 while the client's bucket, one token down from an
\* earlier POST, stayed as that POST left it.
C14_Witness ==
  /\ reqs[1].method = "GET" /\ reqs[1].status = 405
  /\ "10.0.0.1" \in DOMAIN buckets
  /\ buckets["10.0.0.1"].tokens = (capacity - 1) * TokenScale
  /\ buckets["10.0.0.1"].last = 0
  /\ now = TokenScale

\* C15: the prompt carries the last 6 entries of the history the caller sent
\* (all of them when there are fewer), in the caller's order, the oldest of
\* them first, and the history itself stays as the caller sent it.
C15_LastSixInOrder ==
  \A r \in Slots :
    LET q == reqs[r]
        h == IF q.history.type = "array" THEN q.history.items ELSE <<>>
        n == Len(h)
        k == IF n < 6 THEN n ELSE 6
    IN  q.calls # <<>> =>
          /\ Len(q.prompt.convo) = k
          /\ \A i \in 1..k :
               /\ q.prompt.convo[i][2] = h[n - k + i].content
               /\ q.prompt.convo[i][1] =
                    (IF h[n - k + i].role = "user" THEN "USER" ELSE "ASSISTANT")
          /\ q.history \in Histories

\* A history of 7 entries went into a prompt of 6, the entry sent first left
\* out; the stored history still has its 7 entries.
C15_Witness ==
  /\ reqs[1].calls # <<>>
  /\ Len(reqs[1].history.items) = 7
  /\ Len(reqs[1].prompt.convo) = 6
  /\ reqs[1].prompt.convo[1] = <<"ASSISTANT", "2">>
  /\ reqs[1].prompt.convo[6] = <<"USER", "7">>

\* The histories on which the assembler raises: a value that is no sequence,
\* or an entry among the last 6 that has no role.
Raises(history) ==
  \/ history.type = "object"
  \/ /\ history.type = "array"
     /\ \E i \in 1..Len(history.items) :
          i > Len(history.items) - 6 /\ history.items[i].role = "<undefined>"

\* C16: an exception raised while an allowed POST is handled is caught: the
\* request ends with one 500 response whose detail is the exception as a
\* string; no request ends without a response or with two; an exception
\* raised before the upstream stage leaves no upstream call.
C16_FaultsCaught ==
  \A r \in Slots :
    LET q == reqs[r]
    IN  /\ q.sent <= 1
        /\ q.pc = "done" => q.sent = 1 /\ q.status # 0
        /\ (q.method = "POST" /\ q.allowed /\ q.status \notin {400, 413}
              /\ Raises(q.history)) =>
              /\ q.pc = "done" /\ q.status = 500
              /\ q.body.error = "Server error"
              /\ q.body.detail # <<>> /\ q.body.detail[1] = "TypeError:"
              /\ q.calls = <<>>
        /\ q.thrown # Null =>
              /\ q.pc = "done" /\ q.status = 500
              /\ q.body.detail = <<"Error:">> \o q.thrown

\* A POST whose history is an object, and one whose second history entry has
\* no role, were each answered 500 without an upstream call.
C16_Witness ==
  /\ reqs[1].allowed /\ reqs[1].status = 500 /\ reqs[1].sent = 1
  /\ reqs[1].calls = <<>>
  /\ reqs[1].history.type = "array"
  /\ reqs[1].body.detail = NoToUpperCase

\* C18: a 2xx response without usable content (no choices, no content, or a
\* content that is empty once trimmed) is handled like a recoverable error:
\* "Empty response" is recorded and the next candidate is called; when it was
\* the last candidate the invoker fails with that error.
C18_EmptyResponseFallsBack ==
  \A r \in Slots :
    LET q == reqs[r]
    IN  (q.last.kind = "ok" /\ q.last.content \in {Undefined, <<>>, <<" ">>}) =>
          IF q.settled < Len(DEFAULT_MODELS)
          THEN /\ q.pc = "fetch" /\ q.status = 0
               /\ q.lastError = <<"Empty response">>
               /\ Len(q.calls) = q.settled + 1
               /\ q.calls[q.settled + 1] = DEFAULT_MODELS[q.settled + 1]
          ELSE /\ q.pc = "done" /\ q.status = 500
               /\ q.thrown = <<"Empty response">>
               /\ q.body.detail = <<"Error:", "Empty response">>

\* The first candidate answered 2xx with a blank content and the second one
\* is now being called; and the last candidate did so and the request failed.
C18_Witness ==
  /\ reqs[1].last.kind = "ok" /\ reqs[1].last.content = <<" ">>
  /\ reqs[1].settled = Len(DEFAULT_MODELS)
  /\ reqs[1].status = 500
  /\ reqs[1].thrown = <<"Empty response">>

\* C17: a denied call consumes nothing and loses no accrued refill: it stores
\* the refilled count and the new timestamp, so that whatever the spacing of
\* the denied calls, no call is denied once the time elapsed since the bucket
\* reached 0 tokens is a token period (7.5 s) or more.
C17_AllowedAtTokenPeriod ==
  \A ip \in DOMAIN buckets :
    LET w == waits[ip]
        e == bursts[ip].at - w.zero
    IN  (w.zero >= 0 /\ w.granted < 0 /\ w.polled) =>
          /\ buckets[ip].last = bursts[ip].at
          /\ buckets[ip].tokens = e
          /\ e < TokenScale

\* C17, amended: a denied call consumes nothing and stores the refilled count,
\* as the floating-point additions round it, and the new timestamp; no call is
\* denied later than a token period after the bucket reached 0 tokens, and a
\* call made exactly one token period after it is denied only if a denied
\* call since came at a time that is no multiple of 1875 ms after it, in which
\* case the stored count lies just below one token; no call is allowed before
\* a token period has elapsed.
C17_AllowedAfterTokenPeriod ==
  \A ip \in DOMAIN buckets :
    LET w == waits[ip]
        e == bursts[ip].at - w.zero
    IN  /\ (w.zero >= 0 /\ w.granted < 0 /\ w.polled) =>
              /\ buckets[ip].last = bursts[ip].at
              /\ buckets[ip].tokens = e
              /\ e <= TokenScale
              /\ e = TokenScale => w.odd /\ buckets[ip].low
              /\ buckets[ip].low => w.odd
        /\ w.granted >= 0 => w.granted >= TokenScale

\* After denied calls, the call made exactly one token period after the bucket
\* reached 0 tokens was allowed.
C17_Witness ==
  /\ waits["10.0.0.1"].granted = TokenScale
  /\ waits["10.0.0.1"].polled
  /\ ~waits["10.0.0.1"].odd

\* C19: for every identity and every interval, the calls the limiter allows
\* within the interval are at most capacity plus the refill of the interval's
\* length (16 + 8 per minute), whatever the arrival pattern.
C19_WindowBound ==
  \A ip \in IPs :
    windows[ip].start >= 0 =>
      windows[ip].count * MsPerMinute
        <= capacity * MsPerMinute + (now - windows[ip].start) * refillPerMinute

\* 17 calls were allowed within an interval of one token period: the bound is
\* reached.
C19_Witness ==
  /\ windows["10.0.0.1"].start >= 0
  /\ now - windows["10.0.0.1"].start = TokenScale
  /\ windows["10.0.0.1"].count = capacity + 1

\* C20: every POST the limiter allows takes exactly one token from its
\* identity's bucket, and nothing is given back however the request ends: the
\* step that starts an allowed POST leaves the bucket one token below its
\* refilled count and the other buckets as they were, and no later step of a
\* request changes the bucket table.
C20_OneTokenPerAllowedPost ==
  [][\A r \in Slots :
       reqs'[r] # reqs[r] =>
         IF reqs[r].pc = "fetch"
         THEN buckets' = buckets
         ELSE (reqs'[r].method = "POST" /\ reqs'[r].allowed) =>
                LET ip == reqs'[r].ip
                    full == capacity * TokenScale
                    had == IF ip \in DOMAIN buckets
                           THEN buckets[ip].tokens + (now - buckets[ip].last)
                           ELSE full
                IN  /\ buckets'[ip].tokens = (IF had > full THEN full ELSE had) - TokenScale
                    /\ \A i \in DOMAIN buckets : i # ip => buckets'[i] = buckets[i]
                    /\ reqs'[r].status \in {0, 200, 400, 413, 500}]_vars

\* A POST that was allowed ended 500 after every candidate failed, and the
\* bucket is still one token down.
C20_Witness ==
  /\ reqs[1].allowed /\ reqs[1].status = 500
  /\ reqs[1].settled = Len(DEFAULT_MODELS)
  /\ buckets["10.0.0.1"].tokens = (capacity - 1) * TokenScale
  /\ now = 0

\* C21: the limiter's state is kept per identity: the step that asks the
\* limiter for one identity creates or changes that identity's bucket only,
\* every other bucket stays as it was, and the verdict is the one the
\* identity's own bucket gives (a full one when it has none yet), so that one
\* identity running out of tokens never has another one denied.
C21_PerIdentity ==
  [][\A r \in Slots :
       (reqs'[r] # reqs[r] /\ reqs[r].pc # "fetch" /\ reqs'[r].method = "POST") =>
         LET ip == reqs'[r].ip
             full == capacity * TokenScale
             had == IF ip \in DOMAIN buckets
                    THEN buckets[ip].tokens + (now - buckets[ip].last)
                    ELSE full
         IN  /\ DOMAIN buckets' = DOMAIN buckets \cup {ip}
             /\ \A i \in DOMAIN buckets : i # ip => buckets'[i] = buckets[i]
             /\ reqs'[r].allowed <=> had >= TokenScale
             /\ reqs'[r].status = (IF had >= TokenScale THEN 400 ELSE 429)]_vars

\* The first client has used up its tokens and was answered 429; the second
\* client's request, made after that at the same moment, was allowed.
C21_Witness ==
  /\ reqs[1].ip = "10.0.0.1" /\ reqs[1].status = 429
  /\ reqs[2].ip = "10.0.0.2" /\ reqs[2].allowed /\ reqs[2].status = 400
  /\ buckets["10.0.0.1"].tokens = 0
  /\ "10.0.0.2" \in DOMAIN buckets
  /\ buckets["10.0.0.2"].tokens = (capacity - 1) * TokenScale
  /\ buckets["10.0.0.1"].last = buckets["10.0.0.2"].last

\* C22: when every upstream call that is issued comes back, every request
\* ends with exactly one response: a request that awaits an upstream call is
\* answered in the end, no request is answered twice, a finished request has
\* one status, sent once, and no request issues more upstream calls than
\* there are candidates in DEFAULT_MODELS.
C22_OneResponseInTheEnd ==
  /\ [](\A r \in Slots :
          /\ reqs[r].sent <= 1
          /\ reqs[r].pc \in {"idle", "fetch", "done"}
          /\ reqs[r].pc = "done" =>
                reqs[r].sent = 1 /\ reqs[r].status \in {200, 400, 405, 413, 429, 500}
          /\ reqs[r].pc # "done" => reqs[r].sent = 0 /\ reqs[r].status = 0
          /\ Len(reqs[r].calls) <= Len(DEFAULT_MODELS))
  /\ \A r \in Slots : (reqs[r].pc = "fetch") ~> (reqs[r].pc = "done")

\* With GROQ_MODEL set, all six candidates were called and failed, and the
\* request was answered once, with 500.
C22_Witness ==
  /\ reqs[1].pc = "done" /\ reqs[1].sent = 1 /\ reqs[1].status = 500
  /\ Len(DEFAULT_MODELS) = 6
  /\ Len(reqs[1].calls) = 6
  /\ reqs[1].settled = 6

====
